---- MODULE Spec2Model ----
(***************************************************************************)
(* A model of the thread pool of src/src/lib.rs: ThreadPool::new,          *)
(* ThreadPool::execute, Drop for ThreadPool and the worker loop spawned by *)
(* Worker::new, with the mpsc channel and the Mutex around its receiver.   *)
(*                                                                         *)
(* One thread (the owner) constructs the pool, calls execute and drops the *)
(* pool; execute is one atomic send, so calls made by several producer     *)
(* threads interleave as a sequence of sends.  Each worker thread is a     *)
(* process of its own.                                                     *)
(***************************************************************************)
EXTENDS Naturals, Sequences, FiniteSets

\* Largest pool size passed to ThreadPool::new (0 is included: C5).
MaxSize == 2
\* Largest number of execute calls in one run.
MaxJobs == 3

\* The worker identifiers ThreadPool::new can hand out (for id in 0..size).
WorkerIds == 0 .. (MaxSize - 1)

\* What a submitted closure does when it is invoked: it returns, or it panics.
JobKinds == {"ok", "panic"}

\* enum Message { NewJob(Job), Terminate }; a job is named by the number of the
\* execute call that submitted it (1, 2, ...).
NewJob(j) == [type |-> "NewJob", job |-> j]
Terminate == [type |-> "Terminate", job |-> 0]
\* No message held (the worker's local `message` is not bound).
NoMsg == [type |-> "None", job |-> 0]

VARIABLES
    size,       \* the argument of ThreadPool::new
    pc,         \* where the owner thread is
    idx,        \* the index of the loop the owner thread is in (new, drop)
    chan,       \* mpsc::channel() has been called: tx and rx exist
    queue,      \* the messages in the channel, oldest first
    guard,      \* the workers holding the MutexGuard of the receiver
    wstate,     \* where each worker thread is
    wmsg,       \* the message each worker has received and not finished with
    thread,     \* Worker.thread of each worker: "Some" or "None" ("NoWorker": not built)
    jobs,       \* the kind of every closure passed to execute, in call order
    sendErr,    \* the jobs whose send in execute returned Err (execute panicked)
    deqLog,     \* every message received so far, in the order of the receives
    execLog,    \* the jobs invoked so far (call_box), in the order of the invocations
    terms       \* how many Terminate messages each worker has received

vars == <<size, pc, idx, chan, queue, guard, wstate, wmsg, thread, jobs,
          sendErr, deqLog, execLog, terms>>

\* The workers of this pool: ids 0 .. size-1.
Workers == {w \in WorkerIds : w < size}

\* The worker threads that have been spawned and have not ended.
Live == {w \in WorkerIds : wstate[w] \in {"lock", "recv", "match", "run"}}

\* The Receiver lives in an Arc: one clone is the local `rx` of ThreadPool::new,
\* one is moved into every worker's closure and dropped when that thread ends.
\* A send succeeds exactly while some clone is left.
ReceiverAlive == chan /\ (pc = "new_spawn" \/ Live # {})

\* A send that puts the message at the front of the channel.
send_front(q, m) == <<m>> \o q

\* mpsc::Sender::send on a connected channel: append at the tail.
send(q, m) == Append(q, m)

Init ==
    /\ size \in 0 .. MaxSize
    /\ pc = "new"
    /\ idx = 0
    /\ chan = FALSE
    /\ queue = <<>>
    /\ guard = {}
    /\ wstate = [w \in WorkerIds |-> "unspawned"]
    /\ wmsg = [w \in WorkerIds |-> NoMsg]
    /\ thread = [w \in WorkerIds |-> "NoWorker"]
    /\ jobs = <<>>
    /\ sendErr = {}
    /\ deqLog = <<>>
    /\ execLog = <<>>
    /\ terms = [w \in WorkerIds |-> 0]

----------------------------------------------------------------------------
\* ThreadPool::new

\* A build of new_assert without the assertion.
new_assert_unchecked ==
    /\ pc = "new"
    /\ pc' = "new_channel"
    /\ UNCHANGED <<size, idx, chan, queue, guard, wstate, wmsg, thread, jobs,
                   sendErr, deqLog, execLog, terms>>

\* assert!(size > 0): panics when size is 0, before anything else is done.
new_assert ==
    /\ pc = "new"
    /\ pc' = IF size > 0 THEN "new_channel" ELSE "new_panicked"
    /\ UNCHANGED <<size, idx, chan, queue, guard, wstate, wmsg, thread, jobs,
                   sendErr, deqLog, execLog, terms>>

\* Vec::with_capacity, mpsc::channel(), Arc::new(Mutex::new(rx)).
new_channel ==
    /\ pc = "new_channel"
    /\ chan' = TRUE
    /\ idx' = 0
    /\ pc' = "new_spawn"
    /\ UNCHANGED <<size, queue, guard, wstate, wmsg, thread, jobs, sendErr,
                   deqLog, execLog, terms>>

\* One turn of `for id in 0..size`: Worker::new(id, rx.clone()) spawns the
\* thread, which starts at the top of its loop, and the Worker holding
\* Some(thread) is pushed.
Worker_new ==
    /\ pc = "new_spawn"
    /\ idx < size
    /\ wstate' = [wstate EXCEPT ![idx] = "lock"]
    /\ thread' = [thread EXCEPT ![idx] = "Some"]
    /\ idx' = idx + 1
    /\ UNCHANGED <<size, pc, chan, queue, guard, wmsg, jobs, sendErr, deqLog,
                   execLog, terms>>

\* The loop is over: ThreadPool { workers, queue: tx } is returned and the
\* local rx is dropped.
new_return ==
    /\ pc = "new_spawn"
    /\ idx = size
    /\ pc' = "alive"
    /\ idx' = 0
    /\ UNCHANGED <<size, chan, queue, guard, wstate, wmsg, thread, jobs,
                   sendErr, deqLog, execLog, terms>>

----------------------------------------------------------------------------
\* ThreadPool::execute

\* An execute over a channel of capacity one that gives up when it is full
\* (try_send on a sync_channel): the closure is dropped.
execute_try_send(k) ==
    /\ pc = "alive"
    /\ Len(jobs) < MaxJobs
    /\ jobs' = Append(jobs, k)
    /\ IF ReceiverAlive
       THEN /\ queue' = IF queue = <<>> THEN send(queue, NewJob(Len(jobs) + 1))
                        ELSE queue
            /\ UNCHANGED sendErr
       ELSE /\ sendErr' = sendErr \cup {Len(jobs) + 1}
            /\ UNCHANGED queue
    /\ UNCHANGED <<size, pc, idx, chan, guard, wstate, wmsg, thread, deqLog,
                   execLog, terms>>

\* An execute that can also be called while drop sends its Terminates.
execute_late(k) ==
    /\ pc \in {"alive", "drop_send"}
    /\ Len(jobs) < MaxJobs
    /\ jobs' = Append(jobs, k)
    /\ IF ReceiverAlive
       THEN /\ queue' = send(queue, NewJob(Len(jobs) + 1))
            /\ UNCHANGED sendErr
       ELSE /\ sendErr' = sendErr \cup {Len(jobs) + 1}
            /\ UNCHANGED queue
    /\ UNCHANGED <<size, pc, idx, chan, guard, wstate, wmsg, thread, deqLog,
                   execLog, terms>>

\* execute(f): box the closure into Message::NewJob and send it; unwrap
\* panics in the caller when the send returns Err (no receiver is left), and
\* the pool itself is untouched by that.  execute borrows the pool (&self), so
\* it cannot run once drop (&mut self) has begun.
execute(k) ==
    /\ pc = "alive"
    /\ Len(jobs) < MaxJobs
    /\ jobs' = Append(jobs, k)
    /\ IF ReceiverAlive
       THEN /\ queue' = send(queue, NewJob(Len(jobs) + 1))
            /\ UNCHANGED sendErr
       ELSE /\ sendErr' = sendErr \cup {Len(jobs) + 1}
            /\ UNCHANGED queue
    /\ UNCHANGED <<size, pc, idx, chan, guard, wstate, wmsg, thread, deqLog,
                   execLog, terms>>

----------------------------------------------------------------------------
\* Drop for ThreadPool

\* The owner lets the pool go out of scope: drop(&mut self) is entered.
drop_enter ==
    /\ pc = "alive"
    /\ pc' = "drop_send"
    /\ idx' = 0
    /\ UNCHANGED <<size, chan, queue, guard, wstate, wmsg, thread, jobs,
                   sendErr, deqLog, execLog, terms>>

\* A first loop that stops one Terminate short.
drop_send_short ==
    /\ pc = "drop_send"
    /\ IF ReceiverAlive
       THEN /\ queue' = IF idx + 1 < size THEN send(queue, Terminate) ELSE queue
            /\ idx' = IF idx + 1 = size THEN 0 ELSE idx + 1
            /\ pc' = IF idx + 1 = size THEN "drop_take" ELSE "drop_send"
       ELSE /\ pc' = "drop_panicked"
            /\ UNCHANGED <<queue, idx>>
    /\ UNCHANGED <<size, chan, guard, wstate, wmsg, thread, jobs, sendErr,
                   deqLog, execLog, terms>>

\* A single loop: the join of the first worker follows the first Terminate.
drop_send_then_join ==
    /\ pc = "drop_send"
    /\ IF ReceiverAlive
       THEN /\ queue' = send(queue, Terminate)
            /\ idx' = 0
            /\ pc' = "drop_take"
       ELSE /\ pc' = "drop_panicked"
            /\ UNCHANGED <<queue, idx>>
    /\ UNCHANGED <<size, chan, guard, wstate, wmsg, thread, jobs, sendErr,
                   deqLog, execLog, terms>>

\* One turn of the first loop, `for _ in &mut self.workers`:
\* self.queue.send(Message::Terminate).unwrap().  The loop has size >= 1
\* turns; after the last one the second loop starts.  A send that returns Err
\* makes unwrap panic inside drop.
drop_send ==
    /\ pc = "drop_send"
    /\ IF ReceiverAlive
       THEN /\ queue' = send(queue, Terminate)
            /\ idx' = IF idx + 1 = size THEN 0 ELSE idx + 1
            /\ pc' = IF idx + 1 = size THEN "drop_take" ELSE "drop_send"
       ELSE /\ pc' = "drop_panicked"
            /\ UNCHANGED <<queue, idx>>
    /\ UNCHANGED <<size, chan, guard, wstate, wmsg, thread, jobs, sendErr,
                   deqLog, execLog, terms>>

\* A second loop that borrows the handle and leaves Some in the worker.
drop_take_peek ==
    /\ pc = "drop_take"
    /\ thread[idx] = "Some"
    /\ pc' = "drop_join"
    /\ UNCHANGED <<size, idx, chan, queue, guard, wstate, wmsg, thread, jobs,
                   sendErr, deqLog, execLog, terms>>

\* One turn of the second loop, up to the join:
\* `if let Some(thread) = worker.thread.take()` leaves None in the worker.
drop_take ==
    /\ pc = "drop_take"
    /\ thread[idx] = "Some"
    /\ thread' = [thread EXCEPT ![idx] = "None"]
    /\ pc' = "drop_join"
    /\ UNCHANGED <<size, idx, chan, queue, guard, wstate, wmsg, jobs, sendErr,
                   deqLog, execLog, terms>>

\* A join that does not wait for the thread to end.
drop_join_nowait ==
    /\ pc = "drop_join"
    /\ pc' = IF wstate[idx] = "panicked" THEN "drop_panicked"
             ELSE IF idx + 1 = size THEN "done" ELSE "drop_take"
    /\ idx' = IF wstate[idx] = "panicked" THEN idx ELSE idx + 1
    /\ UNCHANGED <<size, chan, queue, guard, wstate, wmsg, thread, jobs,
                   sendErr, deqLog, execLog, terms>>

\* A join whose result is dropped instead of unwrapped.
drop_join_ignore_err ==
    /\ pc = "drop_join"
    /\ wstate[idx] \in {"exited", "panicked"}
    /\ pc' = IF idx + 1 = size THEN "done" ELSE "drop_take"
    /\ idx' = idx + 1
    /\ UNCHANGED <<size, chan, queue, guard, wstate, wmsg, thread, jobs,
                   sendErr, deqLog, execLog, terms>>

\* thread.join().unwrap(): blocks until the worker thread has ended.  join
\* returns Ok when the thread left its loop and Err when it panicked; unwrap
\* then panics inside drop, which ends drop with the later workers unjoined.
\* After the last join drop returns.
drop_join ==
    /\ pc = "drop_join"
    /\ \/ /\ wstate[idx] = "exited"
          /\ pc' = IF idx + 1 = size THEN "done" ELSE "drop_take"
          /\ idx' = idx + 1
       \/ /\ wstate[idx] = "panicked"
          /\ pc' = "drop_panicked"
          /\ idx' = idx
    /\ UNCHANGED <<size, chan, queue, guard, wstate, wmsg, thread, jobs,
                   sendErr, deqLog, execLog, terms>>

----------------------------------------------------------------------------
\* The worker loop (the closure of Worker::new)

\* A lock that is granted while another worker holds the guard.
lock_unguarded(w) ==
    /\ wstate[w] = "lock"
    /\ guard' = guard \cup {w}
    /\ wstate' = [wstate EXCEPT ![w] = "recv"]
    /\ UNCHANGED <<size, pc, idx, chan, queue, wmsg, thread, jobs, sendErr,
                   deqLog, execLog, terms>>

\* receiver.as_ref().lock().unwrap(): take the mutex of the receiver.  The
\* mutex is never poisoned: no thread panics while it holds the guard.
lock(w) ==
    /\ wstate[w] = "lock"
    /\ guard = {}
    /\ guard' = guard \cup {w}
    /\ wstate' = [wstate EXCEPT ![w] = "recv"]
    /\ UNCHANGED <<size, pc, idx, chan, queue, wmsg, thread, jobs, sendErr,
                   deqLog, execLog, terms>>

\* A receive that takes the newest message instead of the oldest.
recv_newest(w) ==
    /\ wstate[w] = "recv"
    /\ queue # <<>>
    /\ wmsg' = [wmsg EXCEPT ![w] = queue[Len(queue)]]
    /\ queue' = SubSeq(queue, 1, Len(queue) - 1)
    /\ deqLog' = Append(deqLog, queue[Len(queue)])
    /\ terms' = [terms EXCEPT ![w] = IF queue[Len(queue)] = Terminate THEN @ + 1 ELSE @]
    /\ guard' = guard \ {w}
    /\ wstate' = [wstate EXCEPT ![w] = "match"]
    /\ UNCHANGED <<size, pc, idx, chan, thread, jobs, sendErr, execLog>>

\* A receive whose guard is bound to a name and so outlives the statement:
\* the mutex stays locked while the message is handled.
recv_hold(w) ==
    /\ wstate[w] = "recv"
    /\ queue # <<>>
    /\ wmsg' = [wmsg EXCEPT ![w] = Head(queue)]
    /\ queue' = Tail(queue)
    /\ deqLog' = Append(deqLog, Head(queue))
    /\ terms' = [terms EXCEPT ![w] = IF Head(queue) = Terminate THEN @ + 1 ELSE @]
    /\ wstate' = [wstate EXCEPT ![w] = "match"]
    /\ UNCHANGED <<size, pc, idx, chan, guard, thread, jobs, sendErr, execLog>>

\* .recv().unwrap() and the end of the `let` statement: blocks while the
\* channel is empty, then removes the oldest message and binds it to
\* `message`; the temporary MutexGuard is dropped at the end of the statement.
\* (recv returns Err only when the channel is empty and the sender is gone;
\* the sender goes with the pool, and by then every live worker still has a
\* Terminate to receive, so that branch is never taken.)
recv(w) ==
    /\ wstate[w] = "recv"
    /\ queue # <<>>
    /\ wmsg' = [wmsg EXCEPT ![w] = Head(queue)]
    /\ queue' = Tail(queue)
    /\ deqLog' = Append(deqLog, Head(queue))
    /\ terms' = [terms EXCEPT ![w] = IF Head(queue) = Terminate THEN @ + 1 ELSE @]
    /\ guard' = guard \ {w}
    /\ wstate' = [wstate EXCEPT ![w] = "match"]
    /\ UNCHANGED <<size, pc, idx, chan, thread, jobs, sendErr, execLog>>

\* match message: NewJob(j) prints and invokes j.call_box(); Terminate prints
\* and breaks out of the loop, which ends the thread.
match(w) ==
    /\ wstate[w] = "match"
    /\ \/ /\ wmsg[w].type = "NewJob"
          /\ wstate' = [wstate EXCEPT ![w] = "run"]
          /\ execLog' = Append(execLog, wmsg[w].job)
          /\ UNCHANGED wmsg
       \/ /\ wmsg[w].type = "Terminate"
          /\ wstate' = [wstate EXCEPT ![w] = "exited"]
          /\ wmsg' = [wmsg EXCEPT ![w] = NoMsg]
          /\ UNCHANGED execLog
    /\ UNCHANGED <<size, pc, idx, chan, queue, guard, thread, jobs, sendErr,
                   deqLog, terms>>

\* A loop that is left after the first job (a misplaced break).
call_box_return_break(w) ==
    /\ wstate[w] = "run"
    /\ jobs[wmsg[w].job] = "ok"
    /\ wstate' = [wstate EXCEPT ![w] = "exited"]
    /\ wmsg' = [wmsg EXCEPT ![w] = NoMsg]
    /\ UNCHANGED <<size, pc, idx, chan, queue, guard, thread, jobs, sendErr,
                   deqLog, execLog, terms>>

\* The invoked closure returns: the worker is back at the top of its loop.
call_box_return(w) ==
    /\ wstate[w] = "run"
    /\ jobs[wmsg[w].job] = "ok"
    /\ wstate' = [wstate EXCEPT ![w] = "lock"]
    /\ wmsg' = [wmsg EXCEPT ![w] = NoMsg]
    /\ UNCHANGED <<size, pc, idx, chan, queue, guard, thread, jobs, sendErr,
                   deqLog, execLog, terms>>

\* A build with panic = "abort": the panic of a job ends every thread.
call_box_panic_abort(w) ==
    /\ wstate[w] = "run"
    /\ jobs[wmsg[w].job] = "panic"
    /\ wstate' = [v \in WorkerIds |->
                    IF wstate[v] \in {"lock", "recv", "match", "run"}
                    THEN "panicked" ELSE wstate[v]]
    /\ wmsg' = [wmsg EXCEPT ![w] = NoMsg]
    /\ guard' = {}
    /\ UNCHANGED <<size, pc, idx, chan, queue, thread, jobs, sendErr, deqLog,
                   execLog, terms>>

\* The invoked closure panics: nothing in the loop catches it, the panic
\* unwinds the worker thread and the thread ends.
call_box_panic(w) ==
    /\ wstate[w] = "run"
    /\ jobs[wmsg[w].job] = "panic"
    /\ wstate' = [wstate EXCEPT ![w] = "panicked"]
    /\ wmsg' = [wmsg EXCEPT ![w] = NoMsg]
    /\ UNCHANGED <<size, pc, idx, chan, queue, guard, thread, jobs, sendErr,
                   deqLog, execLog, terms>>

\* The steps of worker thread w.
Worker(w) ==
    \/ lock(w)
    \/ recv(w)
    \/ match(w)
    \/ call_box_return(w)
    \/ call_box_panic(w)

\* The steps of drop.
drop ==
    \/ drop_send
    \/ drop_take
    \/ drop_join

----------------------------------------------------------------------------
Next ==
    \/ new_assert
    \/ new_channel
    \/ Worker_new
    \/ new_return
    \/ \E k \in JobKinds : execute(k)
    \/ drop_enter
    \/ drop
    \/ \E w \in WorkerIds : Worker(w)

Spec == Init /\ [][Next]_vars

\* Every thread that can take a step eventually takes one (the operating
\* system schedules every runnable thread, and a closure of kind "ok"
\* returns).  Nothing obliges the owner to call execute or to drop the pool.
FairSpec ==
    /\ Spec
    /\ WF_vars(new_assert \/ new_channel \/ Worker_new \/ new_return)
    /\ WF_vars(drop)
    /\ \A w \in WorkerIds : WF_vars(Worker(w))

TypeOK ==
    /\ size \in 0 .. MaxSize
    /\ pc \in {"new", "new_panicked", "new_channel", "new_spawn", "alive",
               "drop_send", "drop_take", "drop_join", "drop_panicked", "done"}
    /\ idx \in 0 .. MaxSize
    /\ chan \in BOOLEAN
    /\ guard \subseteq WorkerIds
    /\ wstate \in [WorkerIds -> {"unspawned", "lock", "recv", "match", "run",
                                 "exited", "panicked"}]
    /\ thread \in [WorkerIds -> {"NoWorker", "Some", "None"}]
    /\ Len(jobs) <= MaxJobs
    /\ \A i \in DOMAIN jobs : jobs[i] \in JobKinds
    /\ sendErr \subseteq DOMAIN jobs
    /\ terms \in [WorkerIds -> 0 .. MaxSize]

----------------------------------------------------------------------------
\* Properties

\* How often x occurs in the sequence seq.
Count(seq, x) == Cardinality({i \in DOMAIN seq : seq[i] = x})

\* The jobs among the messages received so far, in the order of the receives.
IsJob(m) == m.type = "NewJob"
JobsDequeued == SelectSeq(deqLog, IsJob)

\* No closure passed to execute panics.
NoFault == \A j \in DOMAIN jobs : jobs[j] = "ok"

\* The Terminate messages sent so far: those still queued and those received.
TermsSent == Count(queue, Terminate) + Count(deqLog, Terminate)

\* drop has been entered and has not ended.
InDrop == pc \in {"drop_send", "drop_take", "drop_join"}

\* C1: when no submitted job panics, once drop has returned every one of the
\* M jobs passed to execute has been invoked exactly once: the number of
\* invocations is M, none is lost and none runs twice.
C1_ExactlyOnce ==
    (pc = "done" /\ NoFault) =>
        /\ Len(execLog) = Len(jobs)
        /\ \A j \in DOMAIN jobs : Count(execLog, j) = 1

\* drop has returned from a pool of two workers that was given two jobs.
C1_Witness ==
    /\ pc = "done"
    /\ NoFault
    /\ size >= 2
    /\ Len(jobs) >= 2
    /\ Len(execLog) = Len(jobs)

\* C2: under fair scheduling, once drop is entered on a pool whose jobs all
\* return (in particular a pool that was given no job), drop completes with
\* every worker thread exited; and drop never waits in join for a worker that
\* waits for a message while no Terminate is left in the channel.
C2_ShutdownTerminates ==
    /\ [](pc = "drop_join" /\ wstate[idx] \in {"lock", "recv"}
            => Count(queue, Terminate) >= 1)
    /\ (InDrop /\ NoFault)
         ~> (pc = "done" /\ \A w \in Workers : wstate[w] = "exited")

\* A pool of two workers that was given no job has been dropped.
C2_Witness ==
    /\ pc = "done"
    /\ size >= 2
    /\ jobs = <<>>
    /\ \A w \in Workers : wstate[w] = "exited"

\* C3: when a job panics, the jobs submitted after it are still invoked and
\* the pool shuts down cleanly: no send fails, drop does not panic, and when
\* drop has returned every submitted job has been invoked.
C3_FaultIsolated ==
    (\E j \in DOMAIN jobs : jobs[j] = "panic") =>
        /\ sendErr = {}
        /\ pc # "drop_panicked"
        /\ (pc = "done" => \A j \in DOMAIN jobs : Count(execLog, j) = 1)

\* C4: a panic of a job is caught in the worker loop: the worker that invoked
\* the job is back at the top of its loop afterwards and its thread does not
\* end.
C4_FaultCaught ==
    [][\A w \in WorkerIds :
          (wstate[w] = "run" /\ wstate'[w] # "run") => wstate'[w] = "lock"]_vars

\* C5: ThreadPool::new(0) panics at the assertion: the channel is never
\* created, no worker thread is spawned and no pool is returned.
C5_ZeroSizeFails ==
    size = 0 =>
        /\ pc \in {"new", "new_panicked"}
        /\ ~chan
        /\ \A w \in WorkerIds : wstate[w] = "unspawned" /\ thread[w] = "NoWorker"

\* new(0) has panicked.
C5_Witness == size = 0 /\ pc = "new_panicked"

\* C6: drop returns only when every worker has finished its job and left its
\* loop: while a worker holds a received job drop has not returned, and a job
\* that is running ends only by returning or panicking, whatever is queued.
C6_DropWaitsForJobs ==
    /\ [](pc = "done" => \A w \in Workers : wstate[w] = "exited")
    /\ [](\A w \in Workers : wmsg[w].type = "NewJob" => pc # "done")
    /\ [][\A w \in WorkerIds :
            wstate[w] = "run" =>
                \/ wstate'[w] = "run" /\ wmsg'[w] = wmsg[w]
                \/ wstate'[w] = "lock" /\ jobs[wmsg[w].job] = "ok"
                \/ wstate'[w] = "panicked" /\ jobs[wmsg[w].job] = "panic"]_vars

\* drop waits in join for a worker that runs a job while a Terminate is queued.
C6_Witness ==
    /\ pc = "drop_join"
    /\ wstate[idx] = "run"
    /\ Count(queue, Terminate) >= 1

\* C7: every job passed to execute is received before any Terminate is
\* received, and no worker has exited while a job is still queued.
C7_JobsBeforeTerminate ==
    /\ \A i \in DOMAIN deqLog :
          deqLog[i] = Terminate =>
              \A j \in DOMAIN jobs : \E k \in 1 .. (i - 1) : deqLog[k] = NewJob(j)
    /\ (\E w \in Workers : wstate[w] = "exited") =>
          \A i \in DOMAIN queue : queue[i] = Terminate

\* A Terminate has been received after two jobs.
C7_Witness ==
    /\ Len(jobs) >= 2
    /\ Count(deqLog, Terminate) >= 1

\* C8: the jobs are received in the order of their execute calls, whatever
\* the pool size: the i-th job received is job i.  With one worker they are
\* invoked in that order too.
C8_FifoDequeue ==
    /\ \A i \in DOMAIN JobsDequeued : JobsDequeued[i] = NewJob(i)
    /\ size = 1 => \A i \in DOMAIN execLog : execLog[i] = i

\* Two workers received jobs 1 and 2 in that order and invoked them in the
\* other order.
C8_Witness ==
    /\ size >= 2
    /\ Len(JobsDequeued) >= 2
    /\ execLog = <<2, 1>>

\* C9: exactly size Terminate messages are sent, all by drop; every worker
\* receives exactly one in its lifetime; none is left queued when drop has
\* returned.
C9_ExactlyNTerminates ==
    /\ TermsSent <= size
    /\ (TermsSent > 0 => pc \notin {"new", "new_channel", "new_spawn", "alive"})
    /\ (pc \in {"drop_take", "drop_join", "done", "drop_panicked"}
           => TermsSent = size)
    /\ \A w \in Workers : terms[w] <= 1
    /\ \A w \in Workers : wstate[w] \in {"exited", "panicked"} => terms[w] = 1
    /\ (pc = "done" => Count(queue, Terminate) = 0)

\* C10: a call of execute on a live pool does one thing: it appends NewJob to
\* the tail of the channel; the workers, the thread handles, the mutex and
\* the messages already queued are as before.
C10_ExecuteAppends ==
    [][Len(jobs') = Len(jobs) + 1 =>
          /\ queue' = Append(queue, NewJob(Len(jobs')))
          /\ UNCHANGED <<size, pc, idx, chan, guard, wstate, wmsg, thread, deqLog,
                         execLog, terms>>]_vars

\* C11: drop sends all size Terminate messages in its first loop before it
\* takes or joins any thread handle: whenever the second loop has been
\* entered, or a handle has been taken, size Terminates have been sent.
C11_TerminatesBeforeJoin ==
    /\ pc \in {"drop_take", "drop_join"} => TermsSent = size
    /\ (\E w \in Workers : thread[w] = "None") => TermsSent = size
    /\ pc = "drop_send" => TermsSent = idx /\ \A w \in Workers : thread[w] = "Some"

\* The second loop of drop on two workers is about to take its first handle.
C11_Witness ==
    /\ pc = "drop_take"
    /\ idx = 0
    /\ size >= 2
    /\ TermsSent = size

\* C12: at most one worker at a time holds the mutex of the receiver, and only
\* its holder is inside recv; every message sent is either still queued or
\* was received exactly once, and a received message is held by one worker.
C12_CompetingConsumers ==
    /\ Cardinality(guard) <= 1
    /\ \A w \in WorkerIds : wstate[w] = "recv" <=> w \in guard
    /\ \A j \in DOMAIN jobs \ sendErr :
          Count(queue, NewJob(j)) + Count(deqLog, NewJob(j)) = 1
    /\ \A j \in DOMAIN jobs : Cardinality({w \in WorkerIds : wmsg[w] = NewJob(j)}) <= 1
    /\ \A w \in WorkerIds : terms[w] <= 1
    /\ Count(deqLog, Terminate) = Cardinality({w \in WorkerIds : terms[w] = 1})

\* One worker is inside recv on a channel that holds a message while the
\* other waits for the mutex.
C12_Witness ==
    /\ \E w \in Workers : w \in guard /\ \E v \in Workers : v # w /\ wstate[v] = "lock"
    /\ queue # <<>>

\* C13: while no submitted job panics no send fails: execute never gets Err
\* and drop does not panic; in the first loop of drop at most idx workers have
\* exited after idx Terminates, so a receiver is still held.
C13_NoSendFails ==
    NoFault =>
        /\ sendErr = {}
        /\ pc # "drop_panicked"
        /\ pc \in {"alive", "drop_send"} => ReceiverAlive
        /\ pc = "drop_send" =>
              Cardinality({w \in Workers : wstate[w] = "exited"}) <= idx

\* The first loop of drop is about to send again after a worker has exited.
C13_Witness ==
    /\ pc = "drop_send"
    /\ idx >= 1
    /\ NoFault
    /\ Len(jobs) >= 1
    /\ \E w \in Workers : wstate[w] = "exited"

\* The worker thread is in its loop (the state Running of the worker).
Running(w) == wstate[w] \in {"lock", "recv", "match", "run"}

\* C14: a worker starts Running; it stays Running through every step,
\* receiving and invoking a NewJob included, and leaves Running only for
\* Terminated, by the step that handles a received Terminate; a Terminated
\* worker stays Terminated, receives nothing and invokes nothing.
C14_WorkerStateMachine ==
    [][\A w \in WorkerIds :
          /\ (wstate[w] = "unspawned" /\ wstate'[w] # "unspawned") => Running(w)'
          /\ Running(w) =>
                \/ Running(w)'
                \/ wstate'[w] = "exited" /\ wmsg[w] = Terminate
          /\ wstate[w] = "exited" =>
                /\ wstate'[w] = "exited"
                /\ wmsg'[w] = NoMsg
                /\ terms'[w] = terms[w]]_vars

\* C15: the handle of every worker goes from Some to None once, in the turn
\* of drop's second loop that joins this worker; every join takes a handle
\* that was still Some; a handle that is None stays None; when drop has
\* returned every handle is None.
C15_HandleTakenOnce ==
    /\ [](pc = "done" => \A w \in Workers : thread[w] = "None")
    /\ [][\A w \in WorkerIds :
            /\ thread[w] = "None" => thread'[w] = "None"
            /\ (thread[w] = "Some" /\ thread'[w] # "Some") =>
                  /\ thread'[w] = "None"
                  /\ pc = "drop_take" /\ pc' = "drop_join"
                  /\ idx = w
            /\ (pc # "drop_join" /\ pc' = "drop_join" /\ idx = w) =>
                  thread[w] = "Some" /\ thread'[w] = "None"]_vars

\* drop has returned from a pool of two workers.
C15_Witness ==
    /\ pc = "done"
    /\ size >= 2
    /\ \A w \in Workers : thread[w] = "None"

\* C16: the panic of a job ends the thread of the worker that invoked it and
\* nothing else: the live workers become one fewer, every other worker, the
\* channel, the mutex and the pool are as before, the dead worker stays dead
\* and never holds the mutex, and an execute made while some worker is alive
\* still appends its NewJob.
C16_FaultKillsOneWorker ==
    /\ [](\A w \in WorkerIds : wstate[w] = "panicked" => w \notin guard)
    /\ [][\A w \in WorkerIds :
            /\ wstate[w] = "panicked" => wstate'[w] = "panicked"
            /\ (wstate[w] = "run" /\ jobs[wmsg[w].job] = "panic" /\ wstate'[w] # "run") =>
                  /\ wstate'[w] = "panicked"
                  /\ Cardinality(Live') = Cardinality(Live) - 1
                  /\ \A v \in WorkerIds \ {w} :
                        wstate'[v] = wstate[v] /\ wmsg'[v] = wmsg[v]
                  /\ UNCHANGED <<pc, idx, chan, queue, guard, thread, sendErr>>
            /\ (Len(jobs') = Len(jobs) + 1 /\ Live # {}) =>
                  queue' = Append(queue, NewJob(Len(jobs')))]_vars

\* One worker is dead of the panic of a job and the other runs a job that
\* was submitted after that one; no send has failed.
C16_Witness ==
    /\ sendErr = {}
    /\ \E w \in Workers : wstate[w] = "panicked"
    /\ \E v \in Workers :
          /\ wstate[v] = "run"
          /\ \E j \in 1 .. (wmsg[v].job - 1) :
                jobs[j] = "panic" /\ Count(execLog, j) = 1

\* C17: the mutex of the receiver is held only inside recv: a worker that
\* handles a message, runs a job, or has ended does not hold it, so whenever
\* no worker is inside recv a worker at the top of its loop can take it,
\* whatever jobs the other workers are running.
C17_LockOnlyForRecv ==
    /\ \A w \in guard : wstate[w] = "recv"
    /\ \A w \in WorkerIds :
          wstate[w] \in {"match", "run", "exited", "panicked"} => w \notin guard
    /\ \A w \in WorkerIds :
          (wstate[w] = "lock" /\ \A v \in WorkerIds : wstate[v] # "recv")
              => ENABLED lock(w)

\* Both workers of a pool of two run a job at the same time.
C17_Witness ==
    /\ size >= 2
    /\ \A w \in Workers : wstate[w] = "run"

\* C18: no NewJob is queued behind a Terminate: the channel holds a run of
\* NewJobs followed by at most size Terminates, and it holds a Terminate only
\* once drop has been entered, after which no NewJob is added.
C18_QueueShape ==
    /\ \A i \in DOMAIN queue : \A k \in DOMAIN queue :
          (i < k /\ queue[i] = Terminate) => queue[k] = Terminate
    /\ Count(queue, Terminate) <= size
    /\ pc \in {"new", "new_channel", "new_spawn", "alive"} =>
          Count(queue, Terminate) = 0

\* The channel holds a NewJob directly followed by a Terminate.
C18_Witness ==
    \E i \in DOMAIN queue :
        /\ i + 1 \in DOMAIN queue
        /\ queue[i].type = "NewJob"
        /\ queue[i + 1] = Terminate

\* The workers whose thread was ended by the panic of a job.
Dead == {w \in Workers : wstate[w] = "panicked"}

\* drop has panicked at join().unwrap() of worker idx (its handle was taken).
JoinFailed == pc = "drop_panicked" /\ thread[idx] = "None"

\* drop has panicked at send(Terminate).unwrap() in its first loop (no handle
\* has been taken).
SendFailed == pc = "drop_panicked" /\ thread[idx] = "Some"

\* C19 as stated: when drop fails on a pool with a worker that was killed by
\* a panic and a worker that survived to exit on its Terminate, all size
\* Terminates were sent and drop failed at the join of a dead worker.
C19_FailsAtJoin ==
    (pc = "drop_panicked" /\ \E v \in Workers : wstate[v] = "exited") =>
        /\ TermsSent = size
        /\ JoinFailed
        /\ wstate[idx] = "panicked"

\* C19, amended: a pool with a dead worker is never dropped normally.  When
\* all size Terminates get sent, the dead workers receive none, one Terminate
\* for each dead worker and for each worker still to receive its own is
\* queued, the join of a dead worker makes drop panic at the first dead
\* worker with the earlier workers joined and the later ones unjoined, and
\* the unjoined workers still end.  When every worker has ended before the
\* first loop is over, drop panics there at a send with fewer than size
\* Terminates sent.
C19_DropAfterFault ==
    /\ [](pc = "done" => Dead = {})
    /\ [](pc = "drop_panicked" => Dead # {})
    /\ []((pc \in {"drop_take", "drop_join"} \/ JoinFailed) =>
            /\ TermsSent = size
            /\ \A w \in Dead : terms[w] = 0
            /\ Count(queue, Terminate) =
                  Cardinality(Dead)
                  + Cardinality({v \in Workers : Running(v) /\ terms[v] = 0}))
    /\ [](JoinFailed =>
            /\ wstate[idx] = "panicked"
            /\ \A v \in Workers :
                  /\ v < idx => thread[v] = "None" /\ wstate[v] = "exited"
                  /\ v > idx => thread[v] = "Some")
    /\ [](SendFailed =>
            /\ Live = {}
            /\ idx < size
            /\ TermsSent = idx
            /\ \A v \in Workers : thread[v] = "Some")
    /\ [][(pc = "drop_join" /\ wstate[idx] = "panicked" /\ pc' # pc)
             => pc' = "drop_panicked"]_vars
    /\ JoinFailed ~> (\A v \in Workers : wstate[v] \in {"exited", "panicked"})

\* drop has panicked at the join of dead worker 0; worker 1 received its
\* Terminate and exited unjoined, and the Terminate of worker 0 is queued.
C19_Witness ==
    /\ JoinFailed
    /\ size >= 2
    /\ idx = 0
    /\ wstate[1] = "exited"
    /\ thread[1] = "Some"
    /\ Count(queue, Terminate) = 1

====
